---- MODULE Spec2Model ----
(***************************************************************************)
(* Model of the TLS acceptor of axum-util (src/src/tls_acceptor.rs):       *)
(* TlsIncoming::start spawns an accept loop that, for every accepted TCP   *)
(* client, snapshots the watch channel holding the TLS configuration and   *)
(* spawns one handshake task; tasks hand their result to a bounded mpsc    *)
(* channel whose receiver is the stream returned to the caller.            *)
(***************************************************************************)
EXTENDS Integers, Sequences, FiniteSets, TLC

\* ---------------------------------------------------------------- bounds
MaxConn == 2          \* items (connections, errors) the listener yields in one run
MaxPublish == 1       \* publications on the watch channel in one run
MaxBurst == 11        \* connections of a burst that saturates the queue
MaxInFlight == 1      \* handshakes the burst keeps in flight at a time

\* mpsc::channel(10)
Capacity == 10

Configs == {"certA", "certB"}              \* two distinct ServerConfig values
None == "none"                             \* Option::None in the watch channel
ConfigOptions == {None} \cup Configs       \* Option<Arc<ServerConfig>>

\* An accepted AddrStream: the remote address, and what the peer does with the
\* connection: its client hello (well formed, malformed, or never sent) and
\* the configurations it can complete a handshake against.
Clients ==
    { [addr |-> "a1", hello |-> "malformed", supports |-> {}],
      [addr |-> "a2", hello |-> "silent",    supports |-> {}],
      [addr |-> "a3", hello |-> "valid",     supports |-> {"certA"}],
      [addr |-> "a4", hello |-> "valid",     supports |-> Configs] }

\* No client: the listener yielded an error instead of a connection.
NoClient == [addr |-> "none", hello |-> "none", supports |-> {}]

\* The value of a task's tls_stream before into_stream has resolved.
NoStream == [result |-> "none", addr |-> "none", config |-> None]

VARIABLES
    tls_config,      \* value held by the watch channel
    publications,    \* number of publications so far
    published,       \* history: the initial value, then every value sent
    incoming,        \* accept loop: "running" or "ended"; "bind_failed"
                     \* when TlsIncoming::new returned the bind error
    conns,           \* per item the listener yielded, in accept order: the
                     \* accept error, or the client and its handshake task
                     \* (at_accept: what the watch channel held when the
                     \* connection was accepted)
    queue,           \* items in the mpsc channel
    handed,          \* connection ids in the order their send completed
    receiver,        \* "open" or "dropped"; "none" when no stream exists
    yielded,         \* items the stream has yielded to the consumer
    ended,           \* the stream has reported end-of-sequence
    log              \* log records written so far

acceptor_vars == <<tls_config, publications, published, incoming, conns,
                   queue, handed, receiver, yielded, ended, log>>

\* ------------------------------------------------------------ OidcHandler
MaxCallers == 2        \* concurrent calls on one handler
MaxClock == 2          \* ticks of the wall clock in one run
MaxCycle == 1          \* largest refresh_cycle, in ticks
MaxDiscoverFail == 1   \* failed discovery attempts in one run

Callers == 1..MaxCallers
NoCaller == 0
Ops == {"validate_code", "auth_url"}

VARIABLES
    utc_now,            \* Utc::now()
    refresh_cycle,      \* config.refresh_cycle
    client,             \* the pair behind the RwLock: deadline, and which
                        \* discovery produced the Client (0: no handler)
    lock_readers,       \* calls holding a read guard
    lock_writer,        \* the call holding the write guard, or NoCaller
    lock_waiters,       \* first-in first-out queue of the RwLock
    calls,              \* per call: op, position, its now, the client it
                        \* saw expired, the client it used, whether it
                        \* rediscovered
    discover_failures   \* failed attempts of DiscoveredClient::discover

oidc_vars == <<utc_now, refresh_cycle, client, lock_readers, lock_writer,
               lock_waiters, calls, discover_failures>>

\* ------------------------------------------------------------------- Cors
VARIABLES
    cors_requests,      \* requests Cors::call was called with, in order
    inner_requests,     \* requests the inner service was called with
    cors_future,        \* the future returned by the last Cors::call
    inner_output,       \* what the inner future resolved to
    cors_output,        \* what the returned future resolved to
    cors_polls          \* polls of the returned future that were Pending

cors_vars == <<cors_requests, inner_requests, cors_future, inner_output,
               cors_output, cors_polls>>

vars == <<acceptor_vars, oidc_vars, cors_vars>>

IdleCall == [op |-> "none", pc |-> "idle", now |-> 0, saw |-> 0, used |-> 0,
             recreated |-> FALSE]
NoOutput == [kind |-> "none"]

\* No OidcHandler was constructed.
NoOidc ==
    /\ utc_now = 0
    /\ refresh_cycle = 0
    /\ client = [deadline |-> 0, version |-> 0]
    /\ lock_readers = {}
    /\ lock_writer = NoCaller
    /\ lock_waiters = <<>>
    /\ calls = [p \in Callers |-> IdleCall]
    /\ discover_failures = 0

\* No Cors service was constructed.
NoCors ==
    /\ cors_requests = <<>>
    /\ inner_requests = <<>>
    /\ cors_future = "none"
    /\ inner_output = NoOutput
    /\ cors_output = NoOutput
    /\ cors_polls = 0

ConnIds == DOMAIN conns
InFlight == {c \in ConnIds : conns[c].stage \in {"lazy", "into_stream", "send"}}

\* Live mpsc senders: the accept loop's own, plus one clone per running task.
Senders == (IF incoming = "running" THEN 1 ELSE 0) + Cardinality(InFlight)

\* AddrIncoming::bind(&listen)?
BindOutcomes == {"Ok", "Err"}

\* TlsIncoming::new followed by start.  When the bind fails new returns the
\* error: there is no TlsIncoming to start, so no loop, channel or task.
Init ==
    /\ tls_config \in ConfigOptions
    /\ publications = 0
    /\ published = <<tls_config>>
    /\ \E bind \in BindOutcomes :
          /\ incoming = IF bind = "Ok" THEN "running" ELSE "bind_failed"
          /\ receiver = IF bind = "Ok" THEN "open" ELSE "none"
    /\ conns = <<>>
    /\ queue = <<>>
    /\ handed = <<>>
    /\ yielded = <<>>
    /\ ended = FALSE
    /\ log = {}
    /\ NoOidc
    /\ NoCors

\* No TlsIncoming was constructed.
NoAcceptor ==
    /\ tls_config = None
    /\ publications = 0
    /\ published = <<None>>
    /\ incoming = "none"
    /\ receiver = "none"
    /\ conns = <<>>
    /\ queue = <<>>
    /\ handed = <<>>
    /\ yielded = <<>>
    /\ ended = FALSE
    /\ log = {}

\* ------------------------------------------------------- config channel
\* A variant that queues the value behind the one the channel holds.
PublishQueued(v) ==
    /\ tls_config' = tls_config
    /\ publications' = publications + 1
    /\ published' = Append(published, v)
    /\ UNCHANGED <<oidc_vars, cors_vars, incoming, conns, queue, handed,
                   receiver, yielded, ended, log>>

\* watch::Sender::send by the certificate loader: overwrite the held value.
Publish(v) ==
    /\ tls_config' = v
    /\ publications' = publications + 1
    /\ published' = Append(published, v)
    /\ UNCHANGED <<oidc_vars, cors_vars, incoming, conns, queue, handed,
                   receiver, yielded, ended, log>>

\* self.tls_config.borrow().clone()
Snapshot(held) == held

\* ---------------------------------------------------------- accept loop
NextConn == Len(conns) + 1

\* A variant that completes one handshake before it accepts the next client.
AcceptSpawnInline(k) ==
    /\ incoming = "running"
    /\ InFlight = {}
    /\ Snapshot(tls_config) # None
    /\ conns' = Append(conns,
                    [stage |-> "lazy", client |-> k,
                     server_config |-> Snapshot(tls_config),
                     at_accept |-> tls_config, tls_stream |-> NoStream])
    /\ UNCHANGED <<oidc_vars, cors_vars, tls_config, publications, published, incoming, queue,
                   handed, receiver, yielded, ended, log>>

\* Some(Ok(client)) with a configuration present: spawn the handshake task
\* with the snapshot and a clone of the sender.
AcceptSpawn(k) ==
    /\ incoming = "running"
    /\ Snapshot(tls_config) # None
    /\ conns' = Append(conns,
                    [stage |-> "lazy", client |-> k,
                     server_config |-> Snapshot(tls_config),
                     at_accept |-> tls_config, tls_stream |-> NoStream])
    /\ UNCHANGED <<oidc_vars, cors_vars, tls_config, publications, published, incoming, queue,
                   handed, receiver, yielded, ended, log>>

\* A variant that starts the handshake task although no configuration is held.
AcceptNoConfigSpawns(k) ==
    /\ incoming = "running"
    /\ Snapshot(tls_config) = None
    /\ conns' = Append(conns,
                    [stage |-> "lazy", client |-> k,
                     server_config |-> None, at_accept |-> tls_config,
                     tls_stream |-> NoStream])
    /\ UNCHANGED <<oidc_vars, cors_vars, tls_config, publications, published, incoming, queue, handed,
                   receiver, yielded, ended, log>>

\* Some(Ok(client)) with no configuration: warn, drop the client, continue.
AcceptNoConfig(k) ==
    /\ incoming = "running"
    /\ Snapshot(tls_config) = None
    /\ conns' = Append(conns,
                    [stage |-> "no_config", client |-> k,
                     server_config |-> None, at_accept |-> tls_config,
                     tls_stream |-> NoStream])
    /\ log' = log \cup {<<"warn", "no certificates loaded", NextConn>>}
    /\ UNCHANGED <<oidc_vars, cors_vars, tls_config, publications, published, incoming, queue,
                   handed, receiver, yielded, ended>>

\* A variant that leaves the loop on an accept error.
AcceptErrorFatal ==
    /\ incoming = "running"
    /\ conns' = Append(conns,
                    [stage |-> "accept_error", client |-> NoClient,
                     server_config |-> None, at_accept |-> tls_config,
                     tls_stream |-> NoStream])
    /\ log' = log \cup {<<"error", "accepting TCP client", NextConn>>}
    /\ incoming' = "ended"
    /\ UNCHANGED <<oidc_vars, cors_vars, tls_config, publications, published, queue, handed,
                   receiver, yielded, ended>>

\* Some(Err(e)): log and continue.
AcceptError ==
    /\ incoming = "running"
    /\ conns' = Append(conns,
                    [stage |-> "accept_error", client |-> NoClient,
                     server_config |-> None, at_accept |-> tls_config,
                     tls_stream |-> NoStream])
    /\ log' = log \cup {<<"error", "accepting TCP client", NextConn>>}
    /\ UNCHANGED <<oidc_vars, cors_vars, tls_config, publications, published, incoming, queue, handed,
                   receiver, yielded, ended>>

\* None: break; the loop task ends and drops its sender.
AcceptClosed ==
    /\ incoming = "running"
    /\ incoming' = "ended"
    /\ UNCHANGED <<oidc_vars, cors_vars, tls_config, publications, published, conns, queue,
                   handed, receiver, yielded, ended, log>>

\* ------------------------------------------------------- handshake task
\* A variant in which reading the client hello gives up on a silent client.
LazyOutcomeTimeout(k) ==
    CASE k.hello = "valid" -> "Ok"
      [] OTHER             -> "Err"

\* LazyConfigAcceptor: resolves once the client hello was read or failed;
\* it stays pending while the client sends nothing.
LazyOutcome(k) ==
    CASE k.hello = "valid"     -> "Ok"
      [] k.hello = "malformed" -> "Err"
      [] OTHER                 -> "Pending"

\* lazy.await => Ok(accepted)
LazyOk(c) ==
    /\ conns[c].stage = "lazy"
    /\ LazyOutcome(conns[c].client) = "Ok"
    /\ conns' = [conns EXCEPT ![c].stage = "into_stream"]
    /\ UNCHANGED <<oidc_vars, cors_vars, tls_config, publications, published, incoming, queue,
                   handed, receiver, yielded, ended, log>>

\* lazy.await => Err(e): log and return.
LazyErr(c) ==
    /\ conns[c].stage = "lazy"
    /\ LazyOutcome(conns[c].client) = "Err"
    /\ conns' = [conns EXCEPT ![c].stage = "init_failed"]
    /\ log' = log \cup {<<"error", "TLS init", c>>}
    /\ UNCHANGED <<oidc_vars, cors_vars, tls_config, publications, published, incoming, queue,
                   handed, receiver, yielded, ended>>

\* A variant that reads the watch channel again when the handshake starts.
ConfigUsedLatest(c) == tls_config

\* A variant that picks the configuration the client hello asks for.
ConfigUsedByHello(c) ==
    IF conns[c].client.supports = {}
          \/ conns[c].server_config \in conns[c].client.supports
    THEN conns[c].server_config
    ELSE CHOOSE v \in conns[c].client.supports : TRUE

\* The configuration the handshake of connection c is completed against:
\* the server_config moved into the task when it was spawned.
ConfigUsed(c) == conns[c].server_config

\* Outcome of the handshake of client k against configuration cfg.
IntoStreamOutcome(k, cfg) == IF cfg \in k.supports THEN "Ok" ELSE "Err"

\* The Result<TlsStream<AddrStream>, io::Error> that into_stream resolves to.
TlsStreamOf(c) ==
    [result |-> IntoStreamOutcome(conns[c].client, ConfigUsed(c)),
     addr |-> conns[c].client.addr,
     config |-> ConfigUsed(c)]

\* let tls_stream = accepted.into_stream(server_config).await
IntoStream(c) ==
    /\ conns[c].stage = "into_stream"
    /\ conns' = [conns EXCEPT ![c].stage = "send",
                              ![c].tls_stream = TlsStreamOf(c)]
    /\ UNCHANGED <<oidc_vars, cors_vars, tls_config, publications, published, incoming, queue,
                   handed, receiver, yielded, ended, log>>

\* ------------------------------------------------------- delivery queue
\* A variant that admits one item more than the capacity.
HasRoomOffByOne(q) == Len(q) <= Capacity

\* The channel has a free slot.
HasRoom(q) == Len(q) < Capacity

\* A variant that puts the new item at the head of the queue.
EnqueueFront(q, item) == <<item>> \o q

\* The channel is first in, first out.
Enqueue(q, item) == Append(q, item)

\* What the task of connection c passes to sender.send.
Sent(c) == [conn |-> c, stream |-> conns[c].tls_stream]

\* A variant that discards the result when the queue is full (try_send).
SendOrDiscard(c) ==
    /\ conns[c].stage = "send"
    /\ receiver = "open"
    /\ queue' = IF HasRoom(queue) THEN Enqueue(queue, Sent(c)) ELSE queue
    /\ handed' = IF HasRoom(queue) THEN Append(handed, c) ELSE handed
    /\ conns' = [conns EXCEPT ![c].stage = "sent"]
    /\ UNCHANGED <<oidc_vars, cors_vars, tls_config, publications, published, incoming, receiver, yielded,
                   ended, log>>

\* A variant whose task keeps its result and sends it again.
SendOkAgain(c) ==
    /\ conns[c].stage = "send"
    /\ receiver = "open"
    /\ HasRoom(queue)
    /\ queue' = Enqueue(queue, Sent(c))
    /\ handed' = Append(handed, c)
    /\ UNCHANGED <<oidc_vars, cors_vars, tls_config, publications, published, incoming, conns, receiver,
                   yielded, ended, log>>

\* sender.send(tls_stream).await => Ok: needs a free slot.
SendOk(c) ==
    /\ conns[c].stage = "send"
    /\ receiver = "open"
    /\ HasRoom(queue)
    /\ queue' = Enqueue(queue, Sent(c))
    /\ handed' = Append(handed, c)
    /\ conns' = [conns EXCEPT ![c].stage = "sent"]
    /\ UNCHANGED <<oidc_vars, cors_vars, tls_config, publications, published, incoming, receiver, yielded, ended, log>>

\* A variant that keeps waiting for a slot after the receiver is gone.
SendHungWaits(c) ==
    /\ conns[c].stage = "send"
    /\ receiver = "dropped"
    /\ HasRoom(handed)
    /\ conns' = [conns EXCEPT ![c].stage = "hung"]
    /\ log' = log \cup {<<"error", "TLS acceptor hung", c>>}
    /\ UNCHANGED <<oidc_vars, cors_vars, tls_config, publications, published, incoming, queue,
                   handed, receiver, yielded, ended>>

\* sender.send(tls_stream).await => Err: the receiver is gone.
SendHung(c) ==
    /\ conns[c].stage = "send"
    /\ receiver = "dropped"
    /\ conns' = [conns EXCEPT ![c].stage = "hung"]
    /\ log' = log \cup {<<"error", "TLS acceptor hung", c>>}
    /\ UNCHANGED <<oidc_vars, cors_vars, tls_config, publications, published, incoming, queue,
                   handed, receiver, yielded, ended>>

\* ReceiverStream::poll_next => Some(item)
Recv ==
    /\ receiver = "open"
    /\ queue # <<>>
    /\ yielded' = Append(yielded, Head(queue))
    /\ queue' = Tail(queue)
    /\ UNCHANGED <<oidc_vars, cors_vars, tls_config, publications, published, incoming, conns,
                   handed, receiver, ended, log>>

\* A variant that reports the end as soon as the queue is empty.
RecvEndWhenEmpty ==
    /\ receiver = "open"
    /\ ~ended
    /\ queue = <<>>
    /\ ended' = TRUE
    /\ UNCHANGED <<oidc_vars, cors_vars, tls_config, publications, published, incoming, conns, queue, handed,
                   receiver, yielded, log>>

\* A variant that ends the stream as soon as the accept loop is gone.
RecvEndLoopOnly ==
    /\ receiver = "open"
    /\ ~ended
    /\ queue = <<>>
    /\ incoming = "ended"
    /\ ended' = TRUE
    /\ UNCHANGED <<oidc_vars, cors_vars, tls_config, publications, published, incoming, conns,
                   queue, handed, receiver, yielded, log>>

\* ReceiverStream::poll_next => None: empty and every sender dropped.
RecvEnd ==
    /\ receiver = "open"
    /\ ~ended
    /\ queue = <<>>
    /\ Senders = 0
    /\ ended' = TRUE
    /\ UNCHANGED <<oidc_vars, cors_vars, tls_config, publications, published, incoming, conns,
                   queue, handed, receiver, yielded, log>>

\* A variant in which dropping the stream shuts the accept loop down.
DropStreamStopsLoop ==
    /\ receiver = "open"
    /\ receiver' = "dropped"
    /\ queue' = <<>>
    /\ incoming' = "ended"
    /\ UNCHANGED <<oidc_vars, cors_vars, tls_config, publications, published, conns,
                   handed, yielded, ended, log>>

\* The consumer drops the stream: the channel closes, buffered items die.
DropStream ==
    /\ receiver = "open"
    /\ receiver' = "dropped"
    /\ queue' = <<>>
    /\ UNCHANGED <<oidc_vars, cors_vars, tls_config, publications, published, incoming, conns,
                   handed, yielded, ended, log>>

\* ------------------------------------------------------- specifications
\* The environment: what the certificate loader, the listener and the
\* consumer do, within the bounds.
EnvPublish == \E v \in ConfigOptions : publications < MaxPublish /\ Publish(v)
EnvAcceptSpawn == \E k \in Clients : Len(conns) < MaxConn /\ AcceptSpawn(k)
EnvAcceptNoConfig == \E k \in Clients : Len(conns) < MaxConn /\ AcceptNoConfig(k)
EnvAcceptError == Len(conns) < MaxConn /\ AcceptError

Next ==
    \/ EnvPublish
    \/ EnvAcceptSpawn
    \/ EnvAcceptNoConfig
    \/ EnvAcceptError
    \/ AcceptClosed
    \/ \E c \in ConnIds : LazyOk(c)
    \/ \E c \in ConnIds : LazyErr(c)
    \/ \E c \in ConnIds : IntoStream(c)
    \/ \E c \in ConnIds : SendOk(c)
    \/ \E c \in ConnIds : SendHung(c)
    \/ Recv
    \/ RecvEnd
    \/ DropStream

Spec == Init /\ [][Next]_vars

\* A burst of well-behaved clients against a loaded configuration and a
\* consumer that keeps the stream: enough connections to fill the queue.
BurstClients == {k \in Clients : k.hello = "valid" /\ k.supports = Configs}

InitBurst == Init /\ tls_config = "certA" /\ incoming = "running"

BurstAccept ==
    \E k \in BurstClients :
        /\ Len(conns) < MaxBurst
        /\ Cardinality(InFlight) < MaxInFlight
        /\ AcceptSpawn(k)

NextBurst ==
    \/ BurstAccept
    \/ \E c \in ConnIds : LazyOk(c)
    \/ \E c \in ConnIds : IntoStream(c)
    \/ \E c \in ConnIds : SendOk(c)
    \/ Recv

SpecBurst == InitBurst /\ [][NextBurst]_vars

\* The channel on its own: a producer that publishes several times in a row
\* and the accept loop as its reader.
MaxChannelPublish == 2
MaxReads == 2

ChannelPublish ==
    \E v \in ConfigOptions : publications < MaxChannelPublish /\ Publish(v)
ChannelReadSpawn == \E k \in Clients : Len(conns) < MaxReads /\ AcceptSpawn(k)
ChannelReadNoConfig ==
    \E k \in Clients : Len(conns) < MaxReads /\ AcceptNoConfig(k)

NextChannel ==
    \/ ChannelPublish
    \/ ChannelReadSpawn
    \/ ChannelReadNoConfig

SpecChannel == Init /\ [][NextChannel]_vars

\* The same burst with a consumer that may drop the stream at any time.
NextBurstDrop ==
    \/ BurstAccept
    \/ \E c \in ConnIds : LazyOk(c)
    \/ \E c \in ConnIds : IntoStream(c)
    \/ \E c \in ConnIds : SendOk(c)
    \/ \E c \in ConnIds : SendHung(c)
    \/ Recv
    \/ DropStream

SpecBurstDrop == InitBurst /\ [][NextBurstDrop]_vars

\* The consumer keeps reading, and the channel wakes a waiting sender
\* whenever a slot is free.
SpecBurstFair ==
    /\ SpecBurst
    /\ WF_vars(Recv)
    /\ WF_vars(\E c \in ConnIds : SendOk(c))

\* ------------------------------------------------------------ properties
Delivered == yielded \o queue
Count(items, c) == Cardinality({i \in DOMAIN items : items[i].conn = c})
Handoffs(c) == Cardinality({i \in DOMAIN handed : handed[i] = c})
QueuedConns == {queue[i].conn : i \in DOMAIN queue}
YieldedConns == {yielded[i].conn : i \in DOMAIN yielded}
Logged(level, msg, c) == <<level, msg, c>> \in log

\* C1: a connection whose negotiation fails at either stage (reading the
\* client hello, or completing the handshake against the snapshot) is logged
\* and dropped, no item for it is placed on the queue, and every item the
\* stream holds or has yielded is a successfully upgraded connection.
C1_FailuresNeverDelivered ==
    /\ \A c \in ConnIds :
          conns[c].stage = "init_failed" =>
             /\ Logged("error", "TLS init", c)
             /\ c \notin QueuedConns \cup YieldedConns
    /\ \A c \in ConnIds :
          conns[c].tls_stream.result = "Err" =>
             /\ c \notin QueuedConns \cup YieldedConns
             /\ conns[c].stage # "send" =>
                   \E rec \in log : rec[1] = "error" /\ rec[3] = c
    /\ \A i \in DOMAIN Delivered : Delivered[i].stream.result = "Ok"

\* C2: every handshake uses the configuration the watch channel held when
\* its connection was accepted: while the handshake is in flight that is the
\* configuration it will be completed against, and once it has completed
\* its configuration and outcome are those of the value held at accept,
\* whatever has been published since.
C2_SnapshotAtAccept ==
    \A c \in ConnIds :
        /\ conns[c].stage \in {"lazy", "into_stream"} =>
              /\ ConfigUsed(c) = conns[c].at_accept
              /\ TlsStreamOf(c).result =
                    IntoStreamOutcome(conns[c].client, conns[c].at_accept)
        /\ conns[c].tls_stream # NoStream =>
              /\ conns[c].tls_stream.config = conns[c].at_accept
              /\ conns[c].tls_stream.result =
                    IntoStreamOutcome(conns[c].client, conns[c].at_accept)

\* C2 witness: connection 1 was accepted under certA by a client that can
\* only complete against certA, certB was published before connection 2 was
\* accepted, and connection 1 was handed off after connection 2, upgraded.
C2_Witness ==
    /\ Len(conns) = 2
    /\ conns[1].at_accept = "certA"
    /\ conns[1].client.supports = {"certA"}
    /\ conns[2].at_accept = "certB"
    /\ tls_config = "certB"
    /\ handed = <<2, 1>>
    /\ conns[1].tls_stream.result = "Ok"
    /\ conns[2].tls_stream.config = "certB"

\* C3: a connection accepted while the watch channel holds None is dropped
\* with a warning, no handshake task is started for it and no item for it
\* ever reaches the queue or the consumer; a task is started exactly for the
\* connections accepted under a configuration.
C3_State ==
    \A c \in ConnIds :
        /\ (conns[c].at_accept = None /\ conns[c].stage # "accept_error") =>
              /\ conns[c].stage = "no_config"
              /\ Logged("warn", "no certificates loaded", c)
              /\ conns[c].tls_stream = NoStream
              /\ Handoffs(c) = 0
              /\ c \notin QueuedConns \cup YieldedConns
        /\ conns[c].stage = "no_config" => conns[c].at_accept = None

\* C3 (continued): the step that drops such a connection leaves the accept
\* loop running and the queue and the stream untouched.
C3_Step ==
    (Len(conns') = Len(conns) + 1 /\ conns'[Len(conns')].stage = "no_config")
        => /\ incoming' = "running"
           /\ queue' = queue
           /\ yielded' = yielded
           /\ ended' = ended

C3_AbsentConfigDrops == []C3_State /\ [][C3_Step]_vars

\* C3 witness: connection 1 was dropped for lack of a configuration, then a
\* configuration was published and connection 2 was upgraded and yielded.
C3_Witness ==
    /\ Len(conns) = 2
    /\ conns[1].stage = "no_config"
    /\ conns[2].stage = "sent"
    /\ incoming = "running"
    /\ \E i \in DOMAIN yielded :
          yielded[i].conn = 2 /\ yielded[i].stream.result = "Ok"

\* C4: no connection produces more than one item and no item is yielded
\* twice; while the consumer keeps the stream, a connection whose send
\* completed has exactly one item, in the queue or yielded, and that item is
\* the stream its task produced, carrying the connection's remote address.
C4_ExactlyOnce ==
    \A c \in ConnIds :
        /\ Count(yielded, c) + Count(queue, c) <= 1
        /\ Handoffs(c) = (IF conns[c].stage = "sent" THEN 1 ELSE 0)
        /\ receiver = "open" => Count(Delivered, c) = Handoffs(c)
        /\ \A i \in DOMAIN Delivered :
              Delivered[i].conn = c =>
                 /\ Delivered[i].stream = conns[c].tls_stream
                 /\ Delivered[i].stream.addr = conns[c].client.addr

\* C4 witness: two connections from different remote addresses were both
\* upgraded and yielded, each with its own address.
C4_Witness ==
    /\ Len(yielded) = 2
    /\ yielded[1].stream.result = "Ok"
    /\ yielded[2].stream.result = "Ok"
    /\ yielded[1].conn # yielded[2].conn
    /\ yielded[1].stream.addr # yielded[2].stream.addr

\* A negotiated connection that has not reached the consumer yet: its task
\* waits in send, or its item sits in the queue.
Waiting(c) == conns[c].stage = "send" \/ c \in QueuedConns

\* C5 (blocking): while the queue holds Capacity items, a task that has
\* completed its handshake stays in its send and keeps its result.
C5_Step ==
    \A c \in ConnIds :
        (conns[c].stage = "send" /\ Len(queue) = Capacity) =>
            /\ conns'[c].stage = "send"
            /\ conns'[c].tls_stream = conns[c].tls_stream

\* C5 (nothing is dropped): a completed handshake is held by its task until
\* the send completes and is then in the queue or yielded, exactly once.
C5_State ==
    \A c \in ConnIds :
        /\ conns[c].stage = "send" =>
              conns[c].tls_stream # NoStream /\ Count(Delivered, c) = 0
        /\ conns[c].stage = "sent" =>
              /\ Count(Delivered, c) = 1
              /\ \A i \in DOMAIN Delivered :
                    Delivered[i].conn = c =>
                       Delivered[i].stream = conns[c].tls_stream

\* C5: with the queue full a completed handshake blocks in send keeping its
\* result, no result is dropped, and under a consumer that keeps reading the
\* backlog of negotiated connections always clears: since a yielded item
\* stays yielded, every negotiated connection is eventually yielded.
C5_Backpressure ==
    /\ [][C5_Step]_vars
    /\ []C5_State
    /\ (\E c \in ConnIds : Waiting(c)) ~> (\A c \in ConnIds : ~Waiting(c))

\* C5 witness: the queue is full and a task holding an upgraded connection
\* is blocked in its send: it cannot send, the consumer can read.
C5_Witness ==
    /\ Len(queue) = Capacity
    /\ ENABLED Recv
    /\ \E c \in ConnIds :
          /\ conns[c].stage = "send"
          /\ conns[c].tls_stream.result = "Ok"
          /\ ~ENABLED SendOk(c)

\* C6: the queue never holds more than Capacity (10) items, and the accept
\* step has no guard on the tasks in flight or on the queue: whenever the
\* loop runs with a configuration present it can spawn one more task.
C6_QueueBounded ==
    /\ Len(queue) <= Capacity
    /\ (incoming = "running" /\ tls_config # None) =>
          \A k \in Clients : ENABLED AcceptSpawn(k)

\* C6 witness: the queue holds Capacity unread items while further tasks are
\* in flight, one of them waiting to deliver.
C6_Witness ==
    /\ Len(queue) = Capacity
    /\ yielded = <<>>
    /\ Cardinality(InFlight) = MaxInFlight
    /\ \E c \in ConnIds : conns[c].stage = "send"

ConnsOf(items) == [i \in DOMAIN items |-> items[i].conn]
IsPrefix(a, b) == Len(a) <= Len(b) /\ a = SubSeq(b, 1, Len(a))

\* C7: items are yielded in the order in which the sends completed: what
\* was yielded, followed by what is queued, is the hand-off order.
C7_CompletionOrder ==
    /\ IsPrefix(ConnsOf(yielded), handed)
    /\ receiver = "open" => ConnsOf(Delivered) = handed

\* C7 witness: connection 2, accepted after connection 1, was handed off
\* first and yielded first.
C7_Witness == handed = <<2, 1>> /\ ConnsOf(yielded) = <<2, 1>>

\* C8: while the loop runs, every accept outcome can be taken whatever the
\* handshake tasks and the queue are doing, and every task whose client has
\* sent its hello or is completing its handshake can take its step whatever
\* the other tasks are doing.
C8_Independent ==
    /\ incoming = "running" =>
          /\ ENABLED AcceptError
          /\ ENABLED AcceptClosed
          /\ \A k \in Clients : ENABLED (AcceptSpawn(k) \/ AcceptNoConfig(k))
    /\ \A c \in ConnIds :
          /\ (conns[c].stage = "lazy"
                /\ LazyOutcome(conns[c].client) # "Pending") =>
                ENABLED (LazyOk(c) \/ LazyErr(c))
          /\ conns[c].stage = "into_stream" => ENABLED IntoStream(c)

\* C8 witness: connection 1 is stalled (its client sends nothing) while
\* connection 2, accepted after it, has completed its negotiation.
C8_Witness ==
    /\ Len(conns) = 2
    /\ conns[1].stage = "lazy"
    /\ conns[1].client.hello = "silent"
    /\ conns[2].stage = "send"
    /\ conns[2].tls_stream.result = "Ok"
    /\ incoming = "running"

\* C9 (state): an accept error is logged and nothing of it reaches the
\* queue or the consumer.
C9_State ==
    \A c \in ConnIds :
        conns[c].stage = "accept_error" =>
            /\ Logged("error", "accepting TCP client", c)
            /\ Handoffs(c) = 0
            /\ c \notin QueuedConns \cup YieldedConns

\* C9 (step): the step that handles an accept error leaves the loop running
\* and the queue, the yielded items and the end of the stream untouched.
C9_Step ==
    (Len(conns') = Len(conns) + 1
        /\ conns'[Len(conns')].stage = "accept_error")
        => /\ incoming' = "running"
           /\ queue' = queue
           /\ yielded' = yielded
           /\ ended' = ended

\* C9: a transient accept error is logged and the loop continues; the error
\* is not forwarded to the stream and does not end it.
C9_AcceptErrorAbsorbed == []C9_State /\ [][C9_Step]_vars

\* C9 witness: the first accept failed, the connection accepted after it
\* was upgraded and yielded.
C9_Witness ==
    /\ Len(conns) = 2
    /\ conns[1].stage = "accept_error"
    /\ \E i \in DOMAIN yielded :
          yielded[i].conn = 2 /\ yielded[i].stream.result = "Ok"

\* C10: the stream reports end-of-sequence only after the accept loop has
\* ended.
C10_EndOnlyAfterLoopEnded == ended => incoming = "ended"

\* C10 witness: the stream has ended after an accept that produced no item
\* and after yielding an item.
C10_Witness ==
    /\ ended
    /\ Len(yielded) >= 1
    /\ \E c \in ConnIds :
          conns[c].stage \in {"accept_error", "no_config", "init_failed"}

\* C11: when the bind fails nothing of the acceptor exists (no loop, no
\* queue, no task, no log record), and otherwise no failure is ever handed
\* to the caller: every item the stream yields is an upgraded connection.
C11_OnlyBindErrorReturned ==
    /\ incoming = "bind_failed" =>
          /\ receiver = "none"
          /\ conns = <<>> /\ queue = <<>> /\ handed = <<>> /\ yielded = <<>>
          /\ log = {}
          /\ ~ended
    /\ incoming # "bind_failed" =>
          \A i \in DOMAIN yielded : yielded[i].stream.result # "Err"

\* C12 (state): once the consumer has dropped the stream, a task that has a
\* result to hand off cannot deliver it and is not blocked: its send fails
\* at once, whether or not the queue was full; a task whose send failed has
\* logged the error, and its result is in no queue and was never yielded.
C12_State ==
    \A c \in ConnIds :
        /\ (receiver = "dropped" /\ conns[c].stage = "send") =>
              /\ ENABLED SendHung(c)
              /\ ~ENABLED SendOk(c)
        /\ conns[c].stage = "hung" =>
              /\ receiver = "dropped"
              /\ Logged("error", "TLS acceptor hung", c)
              /\ Handoffs(c) = 0
              /\ c \notin QueuedConns \cup YieldedConns

\* C12 (step): a failed send ends its task and touches no other task, and a
\* task that failed to send never sends again.
C12_Step ==
    \A c \in ConnIds :
        /\ (conns[c].stage = "send" /\ conns'[c].stage = "hung") =>
              \A d \in ConnIds : d # c => conns'[d] = conns[d]
        /\ conns[c].stage = "hung" => conns'[c] = conns[c]

\* C12: after the consumer dropped the stream every hand-off fails, is
\* logged, discards the result and ends the task without affecting others.
C12_DeliveryFailure == []C12_State /\ [][C12_Step]_vars

\* C12 witness: the queue was full and never read, the consumer dropped the
\* stream, and the task of the connection beyond the capacity has failed
\* its send and ended.
C12_Witness ==
    /\ receiver = "dropped"
    /\ Len(handed) = Capacity
    /\ yielded = <<>>
    /\ Len(conns) > Capacity
    /\ conns[Capacity + 1].stage = "hung"

\* C13 (state): the channel holds the last value published, or the initial
\* value when nothing was published; the producer can always publish,
\* whatever the readers do, and the accept loop can always read, also when
\* nothing was published yet.
C13_State ==
    /\ Len(published) = publications + 1
    /\ tls_config = published[Len(published)]
    /\ \A v \in ConfigOptions : ENABLED Publish(v)
    /\ (incoming = "running" /\ Len(conns) < MaxReads) =>
          \E k \in Clients : ENABLED AcceptSpawn(k) \/ ENABLED AcceptNoConfig(k)

\* C13 (step): the read made for an accepted connection returns the last
\* value of the history, and consumes nothing from the channel.
C13_Step ==
    Len(conns') = Len(conns) + 1 =>
        /\ conns'[Len(conns')].server_config = published[Len(published)]
        /\ conns'[Len(conns')].at_accept = published[Len(published)]
        /\ published' = published
        /\ tls_config' = tls_config

\* C13: every read of the config channel returns the most recently published
\* value (the initial one before any publication), never an older one, and
\* neither blocks the producer nor waits for a publication.
C13_ReadsLatest == []C13_State /\ [][C13_Step]_vars

\* C13 witness: two publications in a row, each changing the value, and
\* then a reader that missed the first one and was handed the second.
C13_Witness ==
    /\ Len(published) = 3
    /\ published[1] # published[2]
    /\ published[2] # published[3]
    /\ published[1] # published[3]
    /\ Len(conns) = 1
    /\ conns[1].stage = "lazy"
    /\ conns[1].server_config = published[3]

\* Handshake tasks of clients that never send a client hello.
Stalled ==
    {c \in ConnIds : conns[c].stage = "lazy" /\ conns[c].client.hello = "silent"}

\* Connections of silent clients for which a task was spawned.
SilentSpawned ==
    {c \in ConnIds : /\ conns[c].client.hello = "silent"
                     /\ conns[c].stage \notin {"no_config", "accept_error"}}

\* C14 (state): every task spawned for a silent client is still in flight
\* reading the client hello, and no step of its task is possible.
C14_State ==
    /\ Stalled = SilentSpawned
    /\ Stalled \subseteq InFlight
    /\ \A c \in Stalled : ~ENABLED LazyOk(c) /\ ~ENABLED LazyErr(c)

\* C14 (step): no step removes or changes a stalled task, and accepting a
\* silent client with a configuration present adds one.
C14_Step ==
    /\ \A c \in Stalled : c \in Stalled' /\ conns'[c] = conns[c]
    /\ (/\ Len(conns') = Len(conns) + 1
        /\ conns'[Len(conns')].client.hello = "silent"
        /\ tls_config # None)
          => Cardinality(Stalled') = Cardinality(Stalled) + 1

\* C14: there is no handshake timeout: the task of a client that sends
\* nothing stays in flight for ever, nothing aborts it, and the stalled
\* tasks grow by one with each such client.
C14_NoHandshakeTimeout == []C14_State /\ [][C14_Step]_vars

\* C14 witness: as many stalled tasks as connections were accepted, still
\* in flight after the accept loop ended and the consumer went away.
C14_Witness ==
    /\ Cardinality(Stalled) = MaxConn
    /\ incoming = "ended"
    /\ receiver = "dropped"

\* C15 (state): once the stream has reported its end no task is in flight
\* and the queue is empty, so every result handed off was yielded; while a
\* task is in flight the end cannot be reported; and with the loop ended,
\* no task in flight and the queue drained, it can.
C15_State ==
    /\ ended =>
          /\ InFlight = {}
          /\ queue = <<>>
          /\ \A c \in ConnIds : conns[c].stage = "sent" => c \in YieldedConns
    /\ InFlight # {} => ~ended /\ ~ENABLED RecvEnd
    /\ (/\ incoming = "ended" /\ InFlight = {} /\ queue = <<>>
        /\ receiver = "open" /\ ~ended) => ENABLED RecvEnd

\* C15 (step): a step taken while a handshake is stalled never ends the
\* stream.
C15_Step == Stalled # {} => ~ended'

\* C15: after the accept loop ended the stream ends only when no task is in
\* flight and the queue is drained; results of tasks still in flight are
\* delivered first, and a handshake that never completes keeps the stream
\* from ending.
C15_EndAfterTasks == []C15_State /\ [][C15_Step]_vars

\* C15 witness: the loop has ended, one result was yielded, the queue is
\* empty and the consumer is still there, yet the end is not reported
\* because a stalled handshake holds a sender.
C15_Witness ==
    /\ incoming = "ended"
    /\ Stalled # {}
    /\ Len(yielded) = 1
    /\ queue = <<>>
    /\ receiver = "open"
    /\ ~ended
    /\ ~ENABLED RecvEnd

\* C16 (state): with the consumer gone and the loop running, the loop still
\* accepts: it spawns a task when a configuration is held, drops the client
\* when none is, and absorbs accept errors; running tasks still advance.
C16_State ==
    (receiver = "dropped" /\ incoming = "running") =>
        /\ \A k \in Clients :
              /\ tls_config # None => ENABLED AcceptSpawn(k)
              /\ tls_config = None => ENABLED AcceptNoConfig(k)
        /\ ENABLED AcceptError
        /\ \A c \in ConnIds :
              /\ (conns[c].stage = "lazy" /\ conns[c].client.hello = "valid")
                    => ENABLED LazyOk(c)
              /\ conns[c].stage = "into_stream" => ENABLED IntoStream(c)

\* C16 (step): the step that drops the stream leaves the accept loop and
\* every task as they were, and no step taken with the consumer gone ends
\* the loop unless the listener itself is closed.
C16_Step ==
    /\ (receiver = "open" /\ receiver' = "dropped") =>
          incoming' = incoming /\ conns' = conns
    /\ (receiver = "dropped" /\ incoming = "running" /\ incoming' # "running")
          => (conns' = conns /\ log' = log /\ receiver' = receiver)

\* C16: dropping the delivery stream does not stop the acceptor, which
\* keeps accepting connections and starting handshake tasks.
C16_DropKeepsAccepting == []C16_State /\ [][C16_Step]_vars

\* C16 witness: the consumer is gone, the first task failed its hand-off,
\* the loop is still running and a later connection is being negotiated.
C16_Witness ==
    /\ receiver = "dropped"
    /\ incoming = "running"
    /\ Len(conns) = 2
    /\ conns[1].stage = "hung"
    /\ conns[2].stage \in {"lazy", "into_stream"}

\* Connections for which a handshake task was spawned.
Spawned == {c \in ConnIds : conns[c].stage \notin {"no_config", "accept_error"}}

\* C17: the configuration of a handshake is determined by the value the
\* channel held at accept alone: any two handshakes accepted under the same
\* value use the same configuration, whatever their client hellos are.
C17_ConfigIgnoresHello ==
    \A c, d \in Spawned :
        conns[c].at_accept = conns[d].at_accept =>
            /\ ConfigUsed(c) = ConfigUsed(d)
            /\ (conns[c].tls_stream # NoStream /\ conns[d].tls_stream # NoStream)
                  => conns[c].tls_stream.config = conns[d].tls_stream.config

\* C17 witness: two clients whose hellos differ, one of which cannot
\* complete against certB, were both accepted under certB and both
\* handshakes ran against certB.
C17_Witness ==
    /\ Len(conns) = 2
    /\ conns[1].at_accept = "certB" /\ conns[2].at_accept = "certB"
    /\ conns[1].client.supports = {"certA"}
    /\ conns[2].client.supports = Configs
    /\ conns[1].tls_stream.config = "certB"
    /\ conns[1].tls_stream.result = "Err"
    /\ conns[2].tls_stream.config = "certB"
    /\ conns[2].tls_stream.result = "Ok"

\* ============================================================ OidcHandler
\* OidcHandler::new: the first discovery, with its deadline one refresh
\* cycle after the time of construction.
OidcNew ==
    /\ utc_now = 0
    /\ refresh_cycle \in 0..MaxCycle
    /\ client = [deadline |-> utc_now + refresh_cycle, version |-> 1]
    /\ lock_readers = {}
    /\ lock_writer = NoCaller
    /\ lock_waiters = <<>>
    /\ calls = [p \in Callers |-> IdleCall]
    /\ discover_failures = 0

InitOidc == NoAcceptor /\ OidcNew /\ NoCors

\* tokio::sync::RwLock: requests are served first in, first out.
Request(p, mode) == Append(lock_waiters, [who |-> p, mode |-> mode])
AtHead(p, mode) ==
    /\ lock_waiters # <<>>
    /\ Head(lock_waiters) = [who |-> p, mode |-> mode]

\* The wall clock advances.
Tick ==
    /\ utc_now < MaxClock
    /\ utc_now' = utc_now + 1
    /\ UNCHANGED <<acceptor_vars, cors_vars, refresh_cycle, client,
                   lock_readers, lock_writer, lock_waiters, calls,
                   discover_failures>>

\* auth_url or validate_code is called: self.client.read()
OidcCall(p, op) ==
    /\ calls[p].pc = "idle"
    /\ calls' = [calls EXCEPT ![p].op = op, ![p].pc = "read"]
    /\ lock_waiters' = Request(p, "read")
    /\ UNCHANGED <<acceptor_vars, cors_vars, utc_now, refresh_cycle, client,
                   lock_readers, lock_writer, discover_failures>>

\* self.client.read().await resolves: no writer, and first in the queue.
GrantRead(p) ==
    /\ calls[p].pc \in {"read", "read_again"}
    /\ AtHead(p, "read")
    /\ lock_writer = NoCaller
    /\ lock_readers' = lock_readers \cup {p}
    /\ lock_waiters' = Tail(lock_waiters)
    /\ calls' = [calls EXCEPT ![p].pc =
                    CASE calls[p].pc = "read_again" -> "use"
                      [] calls[p].op = "auth_url"   -> "auth"
                      [] OTHER                      -> "now"]
    /\ UNCHANGED <<acceptor_vars, cors_vars, utc_now, refresh_cycle, client,
                   lock_writer, discover_failures>>

\* auth_url: build the URL from client.1 and drop the guard.
AuthUrl(p) ==
    /\ calls[p].pc = "auth"
    /\ calls' = [calls EXCEPT ![p].pc = "done", ![p].used = client.version]
    /\ lock_readers' = lock_readers \ {p}
    /\ UNCHANGED <<acceptor_vars, cors_vars, utc_now, refresh_cycle, client,
                   lock_writer, lock_waiters, discover_failures>>

\* let now = Utc::now();
ReadNow(p) ==
    /\ calls[p].pc = "now"
    /\ calls' = [calls EXCEPT ![p].pc = "check", ![p].now = utc_now]
    /\ UNCHANGED <<acceptor_vars, cors_vars, utc_now, refresh_cycle, client,
                   lock_readers, lock_writer, lock_waiters, discover_failures>>

\* if client.0 < now { drop(client);
CheckExpired(p) ==
    /\ calls[p].pc = "check"
    /\ client.deadline < calls[p].now
    /\ calls' = [calls EXCEPT ![p].pc = "write_req",
                              ![p].saw = client.version]
    /\ lock_readers' = lock_readers \ {p}
    /\ UNCHANGED <<acceptor_vars, cors_vars, utc_now, refresh_cycle, client,
                   lock_writer, lock_waiters, discover_failures>>

\* client.0 >= now: keep the read guard and go on with the request.
CheckFresh(p) ==
    /\ calls[p].pc = "check"
    /\ ~(client.deadline < calls[p].now)
    /\ calls' = [calls EXCEPT ![p].pc = "use"]
    /\ UNCHANGED <<acceptor_vars, cors_vars, utc_now, refresh_cycle, client,
                   lock_readers, lock_writer, lock_waiters, discover_failures>>

\* self.client.write()
RequestWrite(p) ==
    /\ calls[p].pc = "write_req"
    /\ calls' = [calls EXCEPT ![p].pc = "write"]
    /\ lock_waiters' = Request(p, "write")
    /\ UNCHANGED <<acceptor_vars, cors_vars, utc_now, refresh_cycle, client,
                   lock_readers, lock_writer, discover_failures>>

\* self.client.write().await resolves: no holder, and first in the queue.
GrantWrite(p) ==
    /\ calls[p].pc = "write"
    /\ AtHead(p, "write")
    /\ lock_writer = NoCaller
    /\ lock_readers = {}
    /\ lock_writer' = p
    /\ lock_waiters' = Tail(lock_waiters)
    /\ calls' = [calls EXCEPT ![p].pc = "recheck"]
    /\ UNCHANGED <<acceptor_vars, cors_vars, utc_now, refresh_cycle, client,
                   lock_readers, discover_failures>>

\* if old_client.0 < now {
RecheckExpired(p) ==
    /\ calls[p].pc = "recheck"
    /\ client.deadline < calls[p].now
    /\ calls' = [calls EXCEPT ![p].pc = "recreate"]
    /\ UNCHANGED <<acceptor_vars, cors_vars, utc_now, refresh_cycle, client,
                   lock_readers, lock_writer, lock_waiters, discover_failures>>

\* old_client.0 >= now: another call has refreshed the client.
RecheckFresh(p) ==
    /\ calls[p].pc = "recheck"
    /\ ~(client.deadline < calls[p].now)
    /\ calls' = [calls EXCEPT ![p].pc = "unlock"]
    /\ UNCHANGED <<acceptor_vars, cors_vars, utc_now, refresh_cycle, client,
                   lock_readers, lock_writer, lock_waiters, discover_failures>>

\* A variant of recreate that gives up after a failed discovery.
DiscoverErrGivesUp(p) ==
    /\ calls[p].pc = "recreate"
    /\ discover_failures < MaxDiscoverFail
    /\ discover_failures' = discover_failures + 1
    /\ calls' = [calls EXCEPT ![p].pc = "unlock"]
    /\ UNCHANGED <<acceptor_vars, cors_vars, utc_now, refresh_cycle, client,
                   lock_readers, lock_writer, lock_waiters>>

\* recreate: discover => Err(e): warn, sleep one second, try again.
DiscoverErr(p) ==
    /\ calls[p].pc = "recreate"
    /\ discover_failures < MaxDiscoverFail
    /\ discover_failures' = discover_failures + 1
    /\ UNCHANGED <<acceptor_vars, cors_vars, utc_now, refresh_cycle, client,
                   lock_readers, lock_writer, lock_waiters, calls>>

\* recreate: discover => Ok(x), then
\* *old_client = (now + refresh_cycle, new_client)
DiscoverOk(p) ==
    /\ calls[p].pc = "recreate"
    /\ client' = [deadline |-> calls[p].now + refresh_cycle,
                  version |-> client.version + 1]
    /\ calls' = [calls EXCEPT ![p].pc = "unlock", ![p].recreated = TRUE]
    /\ UNCHANGED <<acceptor_vars, cors_vars, utc_now, refresh_cycle,
                   lock_readers, lock_writer, lock_waiters, discover_failures>>

\* drop(old_client);
Unlock(p) ==
    /\ calls[p].pc = "unlock"
    /\ lock_writer' = NoCaller
    /\ calls' = [calls EXCEPT ![p].pc = "read_req"]
    /\ UNCHANGED <<acceptor_vars, cors_vars, utc_now, refresh_cycle, client,
                   lock_readers, lock_waiters, discover_failures>>

\* client = self.client.read()
RequestReadAgain(p) ==
    /\ calls[p].pc = "read_req"
    /\ calls' = [calls EXCEPT ![p].pc = "read_again"]
    /\ lock_waiters' = Request(p, "read")
    /\ UNCHANGED <<acceptor_vars, cors_vars, utc_now, refresh_cycle, client,
                   lock_readers, lock_writer, discover_failures>>

\* The rest of validate_code: the token exchange with client.1, under the
\* read guard, which is dropped on return.
UseClient(p) ==
    /\ calls[p].pc = "use"
    /\ calls' = [calls EXCEPT ![p].pc = "done", ![p].used = client.version]
    /\ lock_readers' = lock_readers \ {p}
    /\ UNCHANGED <<acceptor_vars, cors_vars, utc_now, refresh_cycle, client,
                   lock_writer, lock_waiters, discover_failures>>

NextOidc ==
    \/ Tick
    \/ \E p \in Callers, op \in Ops : OidcCall(p, op)
    \/ \E p \in Callers : GrantRead(p)
    \/ \E p \in Callers : AuthUrl(p)
    \/ \E p \in Callers : ReadNow(p)
    \/ \E p \in Callers : CheckExpired(p)
    \/ \E p \in Callers : CheckFresh(p)
    \/ \E p \in Callers : RequestWrite(p)
    \/ \E p \in Callers : GrantWrite(p)
    \/ \E p \in Callers : RecheckExpired(p)
    \/ \E p \in Callers : RecheckFresh(p)
    \/ \E p \in Callers : DiscoverErr(p)
    \/ \E p \in Callers : DiscoverOk(p)
    \/ \E p \in Callers : Unlock(p)
    \/ \E p \in Callers : RequestReadAgain(p)
    \/ \E p \in Callers : UseClient(p)

SpecOidc == InitOidc /\ [][NextOidc]_vars

\* C18: concurrent calls that saw the same cached client expired rediscover
\* it once: no two calls that saw the same client expired both rediscover;
\* a call that takes the write lock after the client it saw was replaced
\* finds a deadline that is not before its own now; and a call that went
\* through the refresh uses a client newer than the one it saw expired.
C18_RediscoveredOnce ==
    /\ \A p, q \in Callers :
          (p # q /\ calls[p].recreated /\ calls[q].recreated)
              => calls[p].saw # calls[q].saw
    /\ \A p \in Callers :
          (calls[p].pc = "recheck" /\ client.version > calls[p].saw)
              => ~(client.deadline < calls[p].now)
    /\ \A p \in Callers :
          (calls[p].pc = "done" /\ calls[p].saw # 0)
              => calls[p].used > calls[p].saw

\* Calls that have asked for the lock and were not granted it.
LockWaiting == {"read", "write", "read_again"}

\* Calls that hold no guard and whose next step is to ask for the lock.
LockAsking == {"idle", "write_req", "read_req"}

\* C19 (state): while a call is in recreate it holds the write lock and
\* nobody else holds a guard; every other call has returned, has yet to ask
\* for the lock, or waits for it and cannot be granted it.
C19_State ==
    \A p \in Callers :
        calls[p].pc = "recreate" =>
            /\ lock_writer = p
            /\ lock_readers = {}
            /\ \A q \in Callers \ {p} :
                  /\ calls[q].pc \in LockWaiting \cup LockAsking \cup {"done"}
                  /\ calls[q].pc \in LockWaiting =>
                        /\ \E i \in DOMAIN lock_waiters : lock_waiters[i].who = q
                        /\ ~ENABLED GrantRead(q)
                        /\ ~ENABLED GrantWrite(q)

\* C19 (step): a call leaves recreate only with a newly discovered client,
\* and while it stays there no other call returns or is granted the lock.
C19_Step ==
    \A p \in Callers :
        calls[p].pc = "recreate" =>
            /\ calls'[p].pc # "recreate" =>
                  /\ client'.version = client.version + 1
                  /\ calls'[p].pc = "unlock"
                  /\ lock_writer' = p
            /\ calls'[p].pc = "recreate" =>
                  /\ client' = client
                  /\ \A q \in Callers \ {p} :
                        calls[q].pc # "done" =>
                            calls'[q].pc \in LockWaiting \cup LockAsking

\* C19: rediscovery runs under the write lock and retries until it
\* succeeds; until then the refreshing call does not return and every other
\* call on the handler is kept waiting for the lock.
C19_RecreateHoldsLock == []C19_State /\ [][C19_Step]_vars

\* C19 witness: a discovery attempt has failed, the refreshing call is
\* still in recreate, and an auth_url call is queued for the read lock.
C19_Witness ==
    /\ discover_failures >= 1
    /\ \E p, q \in Callers :
          /\ calls[p].pc = "recreate"
          /\ calls[q].op = "auth_url"
          /\ calls[q].pc = "read"

\* =================================================================== Cors
MaxRequests == 2       \* calls of the service in one run
MaxPolls == 1          \* polls of one future that return Pending

Methods == {"OPTIONS", "GET", "POST"}

\* "/api/v1/", as the characters starts_with compares.
ApiV1 == <<"/", "a", "p", "i", "/", "v", "1", "/">>

\* Request paths: under the prefix, the prefix itself, and near misses.
Paths ==
    { ApiV1,
      ApiV1 \o <<"x">>,
      <<"/", "a", "p", "i", "/", "v", "1">>,
      <<"/", "a", "p", "i", "/", "v", "2", "/">>,
      <<"/">>,
      <<"/", "x">> \o ApiV1 }

Requests == [method : Methods, path : Paths]

\* A HeaderMap, as the set of its (name, value) entries.
AllowOrigin == "access-control-allow-origin"
AllowMethods == "access-control-allow-methods"
AllowHeaders == "access-control-allow-headers"
MaxAge == "access-control-max-age"

\* Responses of the inner service: with and without headers of its own,
\* among them CORS headers, one of them with two values.
InnerHeaders ==
    { {},
      {<<"content-type", "application/json">>},
      {<<AllowOrigin, "https://a.example">>, <<AllowHeaders, "x-custom">>,
       <<"content-type", "application/json">>},
      {<<AllowOrigin, "https://a.example">>, <<AllowOrigin, "https://b.example">>,
       <<AllowMethods, "GET">>} }

InnerResponses == [status : {200, 404}, headers : InnerHeaders]
InnerErrors == {"inner error 1", "inner error 2"}

\* Cors::new: a service that has not been called yet.
CorsNew == NoCors

InitCors == NoAcceptor /\ NoOidc /\ CorsNew

\* str::starts_with
StartsWith(s, prefix) ==
    /\ Len(s) >= Len(prefix)
    /\ SubSeq(s, 1, Len(prefix)) = prefix

\* req.method() == Method::OPTIONS && req.uri().path().starts_with("/api/v1/")
IsPreflight(req) == req.method = "OPTIONS" /\ StartsWith(req.path, ApiV1)

\* A variant of insert that keeps the values the map already has.
InsertAppend(headers, name, value) == headers \cup {<<name, value>>}

\* HeaderMap::insert: the value replaces every value held for the name.
Insert(headers, name, value) ==
    {e \in headers : e[1] # name} \cup {<<name, value>>}

\* The response built by the async block of call.
PreflightResponse ==
    [status |-> 200,
     headers |->
        Insert(Insert(Insert(Insert({},
            AllowOrigin, "*"),
            AllowMethods, "POST, GET, OPTIONS, PATCH, DELETE"),
            AllowHeaders, "*"),
            MaxAge, "86400")]

\* CorsFuture::poll on Ready(Ok(response)).
WithCors(response) ==
    [response EXCEPT !.headers =
        Insert(Insert(Insert(response.headers,
            AllowOrigin, "*"),
            AllowMethods, "POST, GET, OPTIONS, PATCH, DELETE"),
            AllowHeaders, "content-type")]

\* call, OPTIONS under /api/v1/: return the async block, inner untouched.
CallPreflight(req) ==
    /\ cors_future \in {"none", "done"}
    /\ Len(cors_requests) < MaxRequests
    /\ IsPreflight(req)
    /\ cors_requests' = Append(cors_requests, req)
    /\ cors_future' = "preflight"
    /\ inner_output' = NoOutput
    /\ cors_output' = NoOutput
    /\ cors_polls' = 0
    /\ UNCHANGED <<acceptor_vars, oidc_vars, inner_requests>>

\* call, any other request: self.inner.call(req) wrapped in a CorsFuture.
CallInner(req) ==
    /\ cors_future \in {"none", "done"}
    /\ Len(cors_requests) < MaxRequests
    /\ ~IsPreflight(req)
    /\ cors_requests' = Append(cors_requests, req)
    /\ inner_requests' = Append(inner_requests, req)
    /\ cors_future' = "inner"
    /\ inner_output' = NoOutput
    /\ cors_output' = NoOutput
    /\ cors_polls' = 0
    /\ UNCHANGED <<acceptor_vars, oidc_vars>>

\* Polling the async block: Ok(response).
PollPreflight ==
    /\ cors_future = "preflight"
    /\ cors_output' = [kind |-> "Ok", response |-> PreflightResponse]
    /\ cors_future' = "done"
    /\ UNCHANGED <<acceptor_vars, oidc_vars, cors_requests, inner_requests,
                   inner_output, cors_polls>>

\* CorsFuture::poll: Poll::Pending => Poll::Pending
PollPending ==
    /\ cors_future = "inner"
    /\ cors_polls < MaxPolls
    /\ cors_polls' = cors_polls + 1
    /\ UNCHANGED <<acceptor_vars, oidc_vars, cors_requests, inner_requests,
                   cors_future, inner_output, cors_output>>

\* CorsFuture::poll: Poll::Ready(Ok(response)) => insert the three headers.
PollOk(response) ==
    /\ cors_future = "inner"
    /\ inner_output' = [kind |-> "Ok", response |-> response]
    /\ cors_output' = [kind |-> "Ok", response |-> WithCors(response)]
    /\ cors_future' = "done"
    /\ UNCHANGED <<acceptor_vars, oidc_vars, cors_requests, inner_requests,
                   cors_polls>>

\* CorsFuture::poll: Poll::Ready(Err(e)) => Poll::Ready(Err(e))
PollErr(e) ==
    /\ cors_future = "inner"
    /\ inner_output' = [kind |-> "Err", error |-> e]
    /\ cors_output' = [kind |-> "Err", error |-> e]
    /\ cors_future' = "done"
    /\ UNCHANGED <<acceptor_vars, oidc_vars, cors_requests, inner_requests,
                   cors_polls>>

NextCors ==
    \/ \E req \in Requests : CallPreflight(req)
    \/ \E req \in Requests : CallInner(req)
    \/ PollPreflight
    \/ PollPending
    \/ \E response \in InnerResponses : PollOk(response)
    \/ \E e \in InnerErrors : PollErr(e)

SpecCors == InitCors /\ [][NextCors]_vars

\* The values a header map holds for a name.
Values(headers, name) == {e[2] : e \in {x \in headers : x[1] = name}}
CorsNames == {AllowOrigin, AllowMethods, AllowHeaders}

\* The requests the claim lets through to the inner service.
PassedOn(req) ==
    ~(/\ req.method = "OPTIONS"
      /\ Len(req.path) >= 8
      /\ \A i \in 1..8 : req.path[i] = ApiV1[i])

\* C20: the inner service is called once for each request that is not an
\* OPTIONS request under /api/v1/, and for no other; such an OPTIONS request
\* is answered 200 with the CORS headers; a successful inner response is
\* returned with its status and other headers and with exactly the values
\* the service sets for the three CORS headers; an inner error is returned
\* as it is.
C20_CorsService ==
    /\ inner_requests = SelectSeq(cors_requests, PassedOn)
    /\ cors_output.kind # "none" =>
          LET req == cors_requests[Len(cors_requests)] IN
          IF ~PassedOn(req)
          THEN /\ inner_output = NoOutput
               /\ cors_output.kind = "Ok"
               /\ cors_output.response.status = 200
               /\ \A n \in CorsNames :
                     Values(cors_output.response.headers, n) # {}
          ELSE /\ inner_output.kind = "Err" => cors_output = inner_output
               /\ inner_output.kind = "Ok" =>
                     /\ cors_output.kind = "Ok"
                     /\ cors_output.response.status =
                           inner_output.response.status
                     /\ Values(cors_output.response.headers, AllowOrigin)
                           = {"*"}
                     /\ Values(cors_output.response.headers, AllowMethods)
                           = {"POST, GET, OPTIONS, PATCH, DELETE"}
                     /\ Values(cors_output.response.headers, AllowHeaders)
                           = {"content-type"}
                     /\ {e \in cors_output.response.headers :
                            e[1] \notin CorsNames}
                          = {e \in inner_output.response.headers :
                                e[1] \notin CorsNames}

\* C20 witness: after a preflight that the inner service never saw, an
\* OPTIONS request just outside the prefix was passed on, and the inner
\* response, which carried two values for allow-origin, was returned with
\* the single value "*".
C20_Witness ==
    /\ Len(cors_requests) = 2
    /\ cors_requests[1] = [method |-> "OPTIONS", path |-> ApiV1 \o <<"x">>]
    /\ cors_requests[2].method = "OPTIONS"
    /\ cors_requests[2].path = <<"/", "a", "p", "i", "/", "v", "1">>
    /\ inner_requests = <<cors_requests[2]>>
    /\ inner_output.kind = "Ok"
    /\ Cardinality(Values(inner_output.response.headers, AllowOrigin)) = 2
    /\ cors_output.kind = "Ok"
    /\ Values(cors_output.response.headers, AllowOrigin) = {"*"}
====
